---------------------------- MODULE Spec2Model ----------------------------
(***************************************************************************)
(* ContextMind: the pipeline orchestrator (backend/app/core/pipeline.py)   *)
(* and the extraction gate (backend/app/services/content_extractor.py) as  *)
(* a state machine of asyncio coroutines.  One step of the model is the    *)
(* code a coroutine runs between two awaits on a collaborator.             *)
(***************************************************************************)
EXTENDS Integers, Sequences, FiniteSets, TLC

(***************************************************************************)
(* Bounds of the model.                                                    *)
(***************************************************************************)
MaxUrls == 2
    \* longest URL list handed to analyze_multiple_urls / extract_multiple
MaxFaults == 2
    \* cleanup() runs of one run: calls from outside plus failed initialize calls
MaxPermits == 2
    \* largest max_concurrent_extractions / max_concurrent

NumCategories == 3
    \* categories the taxonomy holds when it is not empty

(***************************************************************************)
(* The URLs of the model.  What a collaborator does with a URL is fixed by *)
(* the URL, so that one URL analysed twice meets the same collaborators.   *)
(***************************************************************************)
UrlOk        == "https://a.test"
UrlBad       == "not-a-url"
UrlEmbedErr  == "https://embed-raises.test"
UrlSearchErr == "https://search-raises.test"
UrlNoMatch   == "https://no-match.test"
URLS == {UrlOk, UrlBad, UrlEmbedErr, UrlSearchErr, UrlNoMatch}
\* a page whose load never ends: no timeout fires, nothing is raised
UrlHang      == "https://hangs.test"

\* page.goto(url): a response below 400, or a navigation error / status >= 400
GotoSucceeds(url) == url # UrlBad
\* the awaits of _extract_single_url on the page never come back
Hangs(url) == url = UrlHang
\* embedder.embed_content(bundle) raises for this content
EmbedRaises(url) == url = UrlEmbedErr
\* collection.query raises for this query
QueryRaises(url) == url = UrlSearchErr
\* the category ids collection.query returns for this query, nearest first
QueryIds(url) == IF url = UrlNoMatch THEN << >> ELSE <<"cat1", "cat2">>

None == "None"

T == 0 .. MaxUrls
    \* coroutines: 0 is a direct call, 1..n are the ones a gather runs
BatchCaller == MaxUrls + 1
CleanupCaller == MaxUrls + 2
Callers == 0 .. (MaxUrls + 2)
ExtIds == 1 .. (MaxUrls + 2)
    \* one ContentExtractor per initialize, and each caller runs at most one

VARIABLES
    initialized,        \* ContextMindPipeline.initialized
    categories_loaded,  \* ContextMindPipeline.categories_loaded
    embedder,           \* "none" | "ready" | "cleaned"
    search_engine,      \* "none" | "ready"
    content_extractor,  \* 0 (None) or the id of the ContentExtractor
    matcher,            \* self.matcher is not None
    total_embeddings,   \* collection.count() of the persistent store
    browser,            \* per ContentExtractor: "none" | "open" | "closed"
    permits,            \* per ContentExtractor: value of self.semaphore
    ipc,                \* per caller: where it is inside initialize / cleanup
    iext,               \* per caller: the extractor its initialize built or its cleanup exits
    faults,             \* cleanup() runs this run may still see
    max_concurrent_extractions,
                        \* the constructor's parameter, handed on to
                        \* ContentExtractor(max_concurrent=...)
    tasks,              \* per coroutine: its record
    batch,              \* the analyze_multiple_urls call
    semaphore,          \* the asyncio.Semaphore local to that call
    multi,              \* the extract_multiple call
    search_call,        \* one call of VectorSearchEngine.search
    embed_call,         \* one call of MultiGPUEmbedder.embed_content
    store,              \* the collection on disk and one call of
                        \* load_taxonomy_embeddings
    pages,              \* per coroutine: the page its _extract_single_url
                        \* opened, "none" | "open" | "closed"
    route_call          \* one request of GET /categories

pipeVars == <<initialized, categories_loaded, embedder, search_engine,
              content_extractor, matcher, total_embeddings>>
extVars == <<browser, permits>>
initVars == <<ipc, iext, faults, max_concurrent_extractions>>
vars == <<initialized, categories_loaded, embedder, search_engine,
          content_extractor, matcher, total_embeddings, browser, permits,
          ipc, iext, faults, max_concurrent_extractions, tasks, batch,
          semaphore, multi, search_call, embed_call, store, pages,
          route_call>>
callVars == <<search_call, embed_call, store, route_call>>

(***************************************************************************)
(* Result records.                                                         *)
(***************************************************************************)
\* ExtractionResult(...) of _extract_single_url, success path
ExtractionSuccess(url) ==
    [url |-> url, title |-> "title", text |-> "text", images |-> <<"img">>,
     success |-> TRUE, error_message |-> None]

\* ExtractionResult(...) of _extract_single_url, except path
ExtractionFailure(url, msg) ==
    [url |-> url, title |-> "", text |-> "", images |-> << >>,
     success |-> FALSE, error_message |-> msg]

NoExtraction == [url |-> "", title |-> "", text |-> "", images |-> << >>,
                 success |-> FALSE, error_message |-> None]

\* AnalysisResult(...) built when extraction_result.success is false
ExtractionFailedResult(url, exres) ==
    [url |-> url, success |-> FALSE, title |-> "", text_content |-> "",
     num_images |-> 0, extraction_time |-> "measured", embedding_time |-> "0.0",
     embedding_dimension |-> 0, top_categories |-> << >>,
     search_time_ms |-> "0.0", total_time |-> "measured",
     error_message |-> "Content extraction failed: " \o exres.error_message]

\* AnalysisResult(...) built in the except branch of analyze_url
ExceptionResult(url, msg) ==
    [url |-> url, success |-> FALSE, title |-> "", text_content |-> "",
     num_images |-> 0, extraction_time |-> "0.0", embedding_time |-> "0.0",
     embedding_dimension |-> 0, top_categories |-> << >>,
     search_time_ms |-> "0.0", total_time |-> "measured",
     error_message |-> msg]

\* AnalysisResult(...) built after the search returned
SuccessResult(url, exres, ids) ==
    [url |-> url, success |-> TRUE, title |-> exres.title,
     text_content |-> exres.text, num_images |-> Len(exres.images),
     extraction_time |-> "measured", embedding_time |-> "measured",
     embedding_dimension |-> 512, top_categories |-> ids,
     search_time_ms |-> "measured", total_time |-> "measured",
     error_message |-> None]

\* for comparison: the record of an exception without its message
BatchErrorResultNoMessage(url, msg) ==
    [url |-> url, success |-> FALSE, title |-> "", text_content |-> "",
     num_images |-> 0, extraction_time |-> "0.0", embedding_time |-> "0.0",
     embedding_dimension |-> 0, top_categories |-> << >>,
     search_time_ms |-> "0.0", total_time |-> "0.0",
     error_message |-> None]

\* AnalysisResult(...) analyze_multiple_urls builds for an exception gather returned
BatchErrorResult(url, msg) ==
    [url |-> url, success |-> FALSE, title |-> "", text_content |-> "",
     num_images |-> 0, extraction_time |-> "0.0", embedding_time |-> "0.0",
     embedding_dimension |-> 0, top_categories |-> << >>,
     search_time_ms |-> "0.0", total_time |-> "0.0",
     error_message |-> msg]

NoResult == ExceptionResult("", None)

IdleTask ==
    [pc |-> "idle", mode |-> "none", url |-> "", ext |-> 0,
     exres |-> NoExtraction, nExt |-> 0, nEmb |-> 0, nSea |-> 0,
     rec |-> NoResult, exc |-> None]

IdleBatch == [pc |-> "idle", urls |-> << >>, results |-> << >>]

\* no call of search: its arguments, what collection.query answered, and what
\* it returned
NoSearch ==
    [pc |-> "idle", results |-> << >>, top_k |-> 0, confidence_threshold |-> 0,
     search_results |-> << >>, num_results |-> 0]

\* no call of embed_content
NoEmbed ==
    [pc |-> "idle", text |-> "", images |-> << >>, models |-> "ready",
     constant_activation |-> FALSE,
     text_embedding |-> [dim |-> 0, norm |-> "zero"], image_embeddings |-> << >>,
     fused_embedding |-> [dim |-> 0, norm |-> "zero"]]

\* no engine, no collection on disk, no call
NoStore ==
    [engine |-> FALSE, collection |-> [space |-> "none", ids |-> {}],
     pc |-> "idle", categories |-> << >>, num_embeddings |-> 0,
     before |-> [space |-> "none", ids |-> {}]]

\* no request of GET /categories: whether the module's pipeline exists, the
\* query parameters (limit 0: not given), whether get_statistics raises, and
\* the answer
NoRequest ==
    [pc |-> "idle", pipeline |-> FALSE, source |-> None, limit |-> 0,
     stats_raises |-> FALSE, status_code |-> 0, detail |-> ""]

\* the lists of a run in which pages may hang
HangLists == UNION {[1 .. n -> URLS \cup {UrlHang}] : n \in 1 .. MaxUrls}

(***************************************************************************)
(* The state after ContextMindPipeline(...) was constructed, together with *)
(* the calls its clients are about to make: one analyze_multiple_urls(urls)*)
(* and one direct analyze_url(url).  The store persists on disk: an        *)
(* earlier run may have filled it.                                         *)
(***************************************************************************)
UrlLists == UNION {[1 .. n -> URLS] : n \in 0 .. MaxUrls}

\* search and embed_content are not called on their own
NoCalls ==
    /\ search_call = NoSearch /\ embed_call = NoEmbed /\ store = NoStore
    /\ route_call = NoRequest

Unconstructed ==
    /\ initialized = FALSE
    /\ categories_loaded = FALSE
    /\ embedder = "none"
    /\ search_engine = "none"
    /\ content_extractor = 0
    /\ matcher = FALSE
    /\ browser = [e \in ExtIds |-> "none"]
    /\ permits = [e \in ExtIds |-> 0]
    /\ ipc = [c \in Callers |-> "none"]
    /\ iext = [c \in Callers |-> 0]
    /\ semaphore = 0
    /\ max_concurrent_extractions \in 1 .. MaxPermits
    /\ total_embeddings \in {0, NumCategories}
    /\ multi = IdleBatch
    /\ pages = [t \in T |-> "none"]

\* a run in which every initialize succeeds and nobody calls cleanup
Init ==
    /\ Unconstructed
    /\ NoCalls
    /\ faults = 0
    /\ \E url \in URLS :
         tasks = [t \in T |-> IF t = 0
                              THEN [IdleTask EXCEPT !.pc = "called",
                                        !.mode = "analyze", !.url = url]
                              ELSE IdleTask]
    /\ \E urls \in UrlLists : batch = [IdleBatch EXCEPT !.pc = "called",
                                                        !.urls = urls]

\* a run with failing initialize calls and cleanup() calls from outside; the
\* only call is analyze_multiple_urls(urls)
FaultInit ==
    /\ Unconstructed
    /\ NoCalls
    /\ faults = MaxFaults
    /\ tasks = [t \in T |-> IdleTask]
    /\ \E urls \in UrlLists : batch = [IdleBatch EXCEPT !.pc = "called",
                                                        !.urls = urls]

(***************************************************************************)
(* asyncio.Semaphore                                                       *)
(***************************************************************************)
\* for comparison: acquire() waits unless a second permit is free
SemFreeSpare(value) == value > 1

\* for comparison: acquire() never waits
SemFreeAlways(value) == TRUE

\* acquire() does not have to wait
SemFree(value) == value > 0

\* for comparison: the permit is not given back when analyze_url has returned
HoldsBatchPermitNever(t) == FALSE

\* the coroutine t of gather is inside "async with semaphore"
HoldsBatchPermit(t) == t >= 1 /\ tasks[t].mode = "analyze"

(***************************************************************************)
(* "if not self.initialized: await self.initialize()" at the head of       *)
(* analyze_url and analyze_multiple_urls.  A coroutine of gather first     *)
(* enters "async with semaphore"; nothing is awaited in between.           *)
(***************************************************************************)
AtInitCheck(c) ==
    /\ ipc[c] = "none"
    /\ IF c = BatchCaller THEN batch.pc = "called"
       ELSE /\ c \in T
            /\ \/ c = 0 /\ tasks[c].pc = "called"
               \/ c >= 1 /\ tasks[c].pc = "pending" /\ SemFree(semaphore)

\* for comparison: the coroutine takes a second permit that it never gives back
TakeBatchPermitTwice(c) ==
    IF c \in T /\ c >= 1 THEN semaphore - 2 ELSE semaphore

\* the permit a coroutine of gather takes on its way to the check
TakeBatchPermit(c) ==
    IF c \in T /\ c >= 1 THEN semaphore - 1 ELSE semaphore

\* analyze_with_semaphore(url) for url in urls: the coroutines gather runs
GatherTasks(urls) ==
    [t \in T |-> IF t \in 1 .. Len(urls)
                 THEN [IdleTask EXCEPT !.pc = "pending", !.mode = "analyze",
                                       !.url = urls[t]]
                 ELSE tasks[t]]

\* analyze_url reaches "await self.content_extractor.extract_content(url)"
CallExtractContent(t) ==
    [tasks EXCEPT ![t].pc = "extWait", ![t].ext = content_extractor,
                  ![t].nExt = @ + 1]

\* the statements after the check, up to the next await
Proceed(c, sem) ==
    IF c = BatchCaller
    THEN /\ batch' = [batch EXCEPT !.pc = "gather"]
         /\ semaphore' = max_concurrent_extractions
         /\ tasks' = GatherTasks(batch.urls)
    ELSE /\ tasks' = CallExtractContent(c)
         /\ semaphore' = sem
         /\ UNCHANGED batch

\* the caller waits inside initialize
Wait(c, sem) ==
    IF c = BatchCaller
    THEN /\ batch' = [batch EXCEPT !.pc = "initializing"]
         /\ UNCHANGED <<tasks, semaphore>>
    ELSE /\ tasks' = [tasks EXCEPT ![c].pc = "initializing"]
         /\ semaphore' = sem
         /\ UNCHANGED batch

\* for comparison: the exception of initialize is dropped and the caller goes on
RaiseSwallowed(c, sem) == Proceed(c, sem)

\* the exception initialize re-raised leaves the caller; a coroutine of gather
\* leaves "async with semaphore" with it
Raise(c, sem) ==
    IF c = BatchCaller
    THEN /\ batch' = [batch EXCEPT !.pc = "raised"]
         /\ UNCHANGED <<tasks, semaphore>>
    ELSE /\ tasks' = [tasks EXCEPT ![c].pc = "raised",
                                   ![c].exc = "initialization failed"]
         /\ semaphore' = IF c >= 1 THEN sem + 1 ELSE sem
         /\ UNCHANGED batch

\* "if not self.initialized" is false
PassInitCheck(c) ==
    /\ AtInitCheck(c)
    /\ initialized
    /\ Proceed(c, TakeBatchPermit(c))
    /\ UNCHANGED <<pipeVars, extVars, initVars, multi, callVars, pages>>

(***************************************************************************)
(* cleanup(): the part before "await self.content_extractor.__aexit__",    *)
(* and the part after it.                                                  *)
(***************************************************************************)
\* for comparison: cleanup() sets self.embedder back to None
EmbedderAfterCleanupNone == "none"

\* MultiGPUEmbedder.cleanup deletes the models
EmbedderAfterCleanup == IF embedder = "none" THEN "none" ELSE "cleaned"

\* _cleanup_browser: "if self.browser: await self.browser.close()"
BrowserAfterExit(e) ==
    [browser EXCEPT ![e] = IF @ = "open" THEN "closed" ELSE @]

\* "if self.content_extractor: await ...__aexit__(None, None, None)"
CleanupAwaits == content_extractor # 0

\* cleanup() up to its await, or to its end when it awaits nothing; forced
\* says that the run had no choice (initialize met components cleaned up)
CleanupSync(c, forced) ==
    /\ forced \/ faults > 0
    /\ faults' = IF forced THEN faults ELSE faults - 1
    /\ embedder' = EmbedderAfterCleanup
    /\ IF CleanupAwaits
       THEN /\ browser' = BrowserAfterExit(content_extractor)
            /\ ipc' = [ipc EXCEPT ![c] = "aexit"]
            /\ iext' = [iext EXCEPT ![c] = content_extractor]
            /\ UNCHANGED <<initialized, categories_loaded>>
       ELSE /\ initialized' = FALSE
            /\ categories_loaded' = FALSE
            /\ ipc' = [ipc EXCEPT ![c] = "none"]
            /\ UNCHANGED <<browser, iext>>

\* pipeline.cleanup() called from outside (shutdown, a test's finally)
CleanupCall ==
    /\ ipc[CleanupCaller] = "none"
    /\ CleanupSync(CleanupCaller, FALSE)
    /\ UNCHANGED <<search_engine, content_extractor, matcher, total_embeddings,
                   permits, max_concurrent_extractions, tasks, batch, semaphore,
                   multi, callVars, pages>>

\* __aexit__ returned: the flags are reset, and initialize re-raises
CleanupFinish(c) ==
    /\ ipc[c] = "aexit"
    /\ initialized' = FALSE
    /\ categories_loaded' = FALSE
    /\ ipc' = [ipc EXCEPT ![c] = "none"]
    /\ IF c = CleanupCaller
       THEN UNCHANGED <<tasks, batch, semaphore>>
       ELSE Raise(c, semaphore)
    /\ UNCHANGED <<embedder, search_engine, content_extractor, matcher,
                   total_embeddings, browser, permits, iext, faults,
                   max_concurrent_extractions, multi, callVars, pages>>

\* "except Exception: await self.cleanup(); raise" of initialize; sem is the
\* value of the batch semaphore once the caller has taken its permit, waiting
\* says that the caller already waits inside initialize, forced that the
\* failure follows from the state of the components
FailInit(c, sem, waiting, forced) ==
    /\ CleanupSync(c, forced)
    /\ IF CleanupAwaits
       THEN IF waiting THEN UNCHANGED <<tasks, batch, semaphore>>
                       ELSE Wait(c, sem)
       ELSE Raise(c, sem)

(***************************************************************************)
(* initialize()                                                            *)
(***************************************************************************)
\* lines 107-128: the constructors, up to "await content_extractor.__aenter__()"
InitStart(c) ==
    /\ AtInitCheck(c)
    /\ ~initialized
    /\ content_extractor + 1 \in ExtIds
    /\ \/ /\ embedder' = "ready"
          /\ search_engine' = "ready"
          /\ content_extractor' = content_extractor + 1
          /\ permits' = [permits EXCEPT ![content_extractor + 1] =
                                            max_concurrent_extractions]
          /\ ipc' = [ipc EXCEPT ![c] = "aenter"]
          /\ iext' = [iext EXCEPT ![c] = content_extractor + 1]
          /\ Wait(c, TakeBatchPermit(c))
          /\ UNCHANGED <<initialized, categories_loaded, browser, faults>>
       \/ \* MultiGPUEmbedder(...) raises: nothing was assigned
          /\ FailInit(c, TakeBatchPermit(c), FALSE, FALSE)
          /\ UNCHANGED <<search_engine, content_extractor, permits>>
    /\ UNCHANGED <<matcher, total_embeddings, max_concurrent_extractions, multi, callVars, pages>>

\* _ensure_categories_loaded finds the store filled
CategoriesAlreadyLoaded == total_embeddings > 0

\* lines 128-141: the browser is started; matcher, taxonomy manager, statistics
InitBrowser(c) ==
    /\ ipc[c] = "aenter"
    /\ \/ /\ browser' = [browser EXCEPT ![iext[c]] = "open"]
          /\ matcher' = TRUE
          /\ IF CategoriesAlreadyLoaded
             THEN /\ categories_loaded' = TRUE
                  /\ initialized' = TRUE
                  /\ ipc' = [ipc EXCEPT ![c] = "none"]
                  /\ Proceed(c, semaphore)
             ELSE /\ ipc' = [ipc EXCEPT ![c] = "load_taxonomy"]
                  /\ UNCHANGED <<categories_loaded, initialized, tasks, batch,
                                 semaphore>>
          /\ UNCHANGED <<embedder, iext, faults>>
       \/ \* chromium.launch raises
          /\ FailInit(c, semaphore, TRUE, FALSE)
          /\ UNCHANGED matcher
    /\ UNCHANGED <<search_engine, content_extractor, total_embeddings, permits,
                   max_concurrent_extractions, multi, callVars, pages>>

\* lines 165-177: the taxonomy is read, embedded and stored
InitLoad(c) ==
    /\ ipc[c] = "load_taxonomy"
    /\ \/ /\ embedder = "ready"
          /\ total_embeddings' = NumCategories
          /\ categories_loaded' = TRUE
          /\ initialized' = TRUE
          /\ ipc' = [ipc EXCEPT ![c] = "none"]
          /\ Proceed(c, semaphore)
          /\ UNCHANGED <<embedder, browser, iext, faults>>
       \/ \* "if not categories: raise RuntimeError", or embed_categories
          \* raises on an embedder that was cleaned up
          /\ FailInit(c, semaphore, TRUE, embedder # "ready")
          /\ UNCHANGED total_embeddings
    /\ UNCHANGED <<search_engine, content_extractor, matcher, permits,
                   max_concurrent_extractions, multi, callVars, pages>>

(***************************************************************************)
(* ContentExtractor.extract_content and _extract_single_url                *)
(***************************************************************************)
\* for comparison: the exception leaves _extract_single_url
SingleUrlExceptReraise(url, msg) == [raised |-> TRUE, res |-> NoExtraction]

\* "except Exception as e: ... return ExtractionResult(success=False, ...)":
\* how _extract_single_url ends when its body raised msg
SingleUrlExcept(url, msg) ==
    [raised |-> FALSE, res |-> ExtractionFailure(url, msg)]

\* how _extract_single_url ends once the page was opened: the browser went
\* away meanwhile, goto failed or answered >= 400, or the page was parsed
SingleUrlResult(url, br) ==
    IF br # "open" THEN SingleUrlExcept(url, "Target closed")
    ELSE IF ~GotoSucceeds(url) THEN SingleUrlExcept(url, "HTTP 404")
    ELSE [raised |-> FALSE, res |-> ExtractionSuccess(url)]

\* for comparison: the page is closed at the end of the body only, not in a
\* finally
ClosePageOnSuccess(page, out) == IF out.res.success THEN "closed" ELSE page

\* "finally: await page.close()": whatever the body did, the page is closed
\* (with its browser, if that went away meanwhile)
ClosePage(page, out) == "closed"

\* analyze_url returns rec: the coroutine is done; a coroutine of gather
\* leaves "async with semaphore"
Return(t, rec) ==
    /\ tasks' = [tasks EXCEPT ![t].pc = "done", ![t].rec = rec]
    /\ semaphore' = IF HoldsBatchPermit(t) THEN semaphore + 1 ELSE semaphore

\* the same, for the return that follows a failed extraction
ReturnExtractionFailed(t, exres) ==
    /\ tasks' = [tasks EXCEPT ![t].pc = "done", ![t].exres = exres,
                  ![t].rec = ExtractionFailedResult(tasks[t].url, exres)]
    /\ semaphore' = IF HoldsBatchPermit(t) THEN semaphore + 1 ELSE semaphore

\* for comparison: a failed extraction is embedded all the same
StopAfterExtractionNever(exres) == FALSE

\* "if not extraction_result.success: return AnalysisResult(...)"
StopAfterExtraction(exres) == ~exres.success

\* extract_content ended with out; in analyze_url lines 203-226 (or its
\* except branch) follow without an await
ExtractionReturned(t, out) ==
    IF tasks[t].mode = "extract"
    THEN /\ tasks' = [tasks EXCEPT ![t].pc = IF out.raised THEN "raised"
                                                           ELSE "extracted",
                                   ![t].exres = out.res]
         /\ UNCHANGED semaphore
    ELSE IF out.raised
    THEN Return(t, ExceptionResult(tasks[t].url, "extraction raised"))
    ELSE IF StopAfterExtraction(out.res)
    THEN ReturnExtractionFailed(t, out.res)
    ELSE /\ tasks' = [tasks EXCEPT ![t].pc = "embedding", ![t].exres = out.res,
                                   ![t].nEmb = @ + 1]
         /\ UNCHANGED semaphore

\* "async with self.semaphore", then "page = await self.browser.new_page()"
ExtAcquire(t) ==
    /\ tasks[t].pc = "extWait"
    /\ SemFree(permits[tasks[t].ext])
    /\ IF browser[tasks[t].ext] = "open"
       THEN /\ permits' = [permits EXCEPT ![tasks[t].ext] = @ - 1]
            /\ tasks' = [tasks EXCEPT ![t].pc = "extracting"]
            /\ pages' = [pages EXCEPT ![t] = "open"]
            /\ UNCHANGED semaphore
       ELSE \* self.browser is None or closed: new_page raises, the except
            \* branch returns at once and the permit is back
            /\ ExtractionReturned(t, SingleUrlExcept(tasks[t].url, "no browser"))
            /\ UNCHANGED <<permits, pages>>
    /\ UNCHANGED <<pipeVars, browser, initVars, batch, multi, callVars>>

\* the page is loaded and parsed (or an exception is caught), the page is
\* closed, the result returned and the permit released
ExtFinish(t) ==
    /\ tasks[t].pc = "extracting"
    /\ ~Hangs(tasks[t].url)
    /\ ExtractionReturned(t, SingleUrlResult(tasks[t].url, browser[tasks[t].ext]))
    /\ pages' = [pages EXCEPT ![t] =
                    ClosePage(@, SingleUrlResult(tasks[t].url, browser[tasks[t].ext]))]
    /\ permits' = [permits EXCEPT ![tasks[t].ext] = @ + 1]
    /\ UNCHANGED <<pipeVars, browser, initVars, batch, multi, callVars>>

(***************************************************************************)
(* analyze_url after the extraction                                        *)
(***************************************************************************)
\* embed_content raises: for this content, or because the models were deleted
EmbedFails(url) == EmbedRaises(url) \/ embedder # "ready"

\* lines 226-230
EmbedReturn(t) ==
    /\ tasks[t].pc = "embedding"
    /\ IF EmbedFails(tasks[t].url)
       THEN Return(t, ExceptionResult(tasks[t].url, "embedding failed"))
       ELSE /\ tasks' = [tasks EXCEPT ![t].pc = "searching", ![t].nSea = @ + 1]
            /\ UNCHANGED semaphore
    /\ UNCHANGED <<pipeVars, extVars, initVars, batch, multi, callVars, pages>>

\* lines 235-257: the record is built, the summary printed, the record returned;
\* "search_results[0]" of the last print raises IndexError on an empty list
AfterSearch(url, exres, ids) ==
    IF Len(ids) = 0 THEN ExceptionResult(url, "list index out of range")
    ELSE SuccessResult(url, exres, ids)

\* for comparison: a search that raised is tried once more
SearchReturnRetry(t) ==
    /\ tasks[t].pc = "searching"
    /\ IF QueryRaises(tasks[t].url) /\ tasks[t].nSea < 2
       THEN /\ tasks' = [tasks EXCEPT ![t].nSea = @ + 1]
            /\ UNCHANGED semaphore
       ELSE IF QueryRaises(tasks[t].url)
       THEN Return(t, ExceptionResult(tasks[t].url, "search failed"))
       ELSE Return(t, AfterSearch(tasks[t].url, tasks[t].exres,
                                  QueryIds(tasks[t].url)))
    /\ UNCHANGED <<pipeVars, extVars, initVars, batch, multi, callVars, pages>>

\* lines 230-278
SearchReturn(t) ==
    /\ tasks[t].pc = "searching"
    /\ IF QueryRaises(tasks[t].url)
       THEN Return(t, ExceptionResult(tasks[t].url, "search failed"))
       ELSE Return(t, AfterSearch(tasks[t].url, tasks[t].exres,
                                  QueryIds(tasks[t].url)))
    /\ UNCHANGED <<pipeVars, extVars, initVars, batch, multi, callVars, pages>>

(***************************************************************************)
(* analyze_multiple_urls after gather                                      *)
(***************************************************************************)
Finished(t) == tasks[t].pc \in {"done", "raised"}

\* for comparison: the exceptions gather returned are left out
FinalResultsDropExceptions(urls) ==
    LET idx == SelectSeq([i \in 1 .. Len(urls) |-> i],
                         LAMBDA i : tasks[i].pc # "raised")
    IN  [k \in 1 .. Len(idx) |-> tasks[idx[k]].rec]

\* for comparison: after the first failed record the rest of the batch is given up
FinalResultsFailFast(urls) ==
    [i \in 1 .. Len(urls) |->
        IF \E j \in 1 .. (i - 1) : ~tasks[j].rec.success
        THEN BatchErrorResult(urls[i], "batch aborted")
        ELSE IF tasks[i].pc = "raised"
        THEN BatchErrorResult(urls[i], tasks[i].exc)
        ELSE tasks[i].rec]

\* lines 309-328: one record per result of gather, in the order of urls
FinalResults(urls) ==
    [i \in 1 .. Len(urls) |->
        IF tasks[i].pc = "raised"
        THEN BatchErrorResult(urls[i], tasks[i].exc)
        ELSE tasks[i].rec]

\* line 334 divides by len(urls)
SummaryRaises(urls) == Len(urls) = 0

\* lines 306-336
GatherFinish ==
    /\ batch.pc = "gather"
    /\ \A t \in 1 .. Len(batch.urls) : Finished(t)
    /\ IF SummaryRaises(batch.urls)
       THEN batch' = [batch EXCEPT !.pc = "raised"]
       ELSE batch' = [batch EXCEPT !.pc = "returned",
                                   !.results = FinalResults(batch.urls)]
    /\ UNCHANGED <<pipeVars, extVars, initVars, tasks, semaphore, multi, callVars, pages>>

Next ==
    \/ \E c \in Callers : \/ PassInitCheck(c)
                          \/ InitStart(c)
                          \/ InitBrowser(c)
                          \/ InitLoad(c)
    \/ \E t \in T : \/ ExtAcquire(t)
                    \/ ExtFinish(t)
                    \/ EmbedReturn(t)
                    \/ SearchReturn(t)
    \/ GatherFinish

Spec == Init /\ [][Next]_vars

FaultNext ==
    \/ Next
    \/ CleanupCall
    \/ \E c \in Callers : CleanupFinish(c)

FaultSpec == FaultInit /\ [][FaultNext]_vars

(***************************************************************************)
(* A ContentExtractor used on its own: ContentExtractor(max_concurrent),   *)
(* then __aenter__ / __aexit__, one extract_content(url) and one           *)
(* extract_multiple(urls), in any order and concurrently.                  *)
(***************************************************************************)
ExtractTask(url) ==
    [IdleTask EXCEPT !.pc = "extWait", !.mode = "extract", !.url = url,
                     !.ext = 1, !.nExt = 1]

ExtractorInit ==
    /\ initialized = FALSE
    /\ categories_loaded = FALSE
    /\ embedder = "none"
    /\ search_engine = "none"
    /\ matcher = FALSE
    /\ total_embeddings = 0
    /\ content_extractor = 1
    /\ max_concurrent_extractions \in 1 .. MaxPermits
    /\ browser = [e \in ExtIds |-> "none"]
    /\ permits = [e \in ExtIds |-> IF e = 1 THEN max_concurrent_extractions
                                            ELSE 0]
    /\ ipc = [c \in Callers |-> "none"]
    /\ iext = [c \in Callers |-> 0]
    /\ faults = 0
    /\ semaphore = 0
    /\ batch = IdleBatch
    /\ NoCalls
    /\ pages = [t \in T |-> "none"]
    /\ \E url \in URLS : tasks = [t \in T |-> IF t = 0 THEN ExtractTask(url)
                                                       ELSE IdleTask]
    /\ \E urls \in UrlLists : multi = [IdleBatch EXCEPT !.pc = "called",
                                                        !.urls = urls]

\* __aenter__: _initialize_browser
ExtEnter ==
    /\ browser[1] = "none"
    /\ browser' = [browser EXCEPT ![1] = "open"]
    /\ UNCHANGED <<pipeVars, permits, initVars, tasks, batch, semaphore, multi, callVars, pages>>

\* __aexit__: _cleanup_browser
ExtExit ==
    /\ browser[1] = "open"
    /\ browser' = BrowserAfterExit(1)
    /\ UNCHANGED <<pipeVars, permits, initVars, tasks, batch, semaphore, multi, callVars, pages>>

\* extract_multiple lines 463-468: one extract_content(url) per url
MultiStart ==
    /\ multi.pc = "called"
    /\ multi' = [multi EXCEPT !.pc = "gather"]
    /\ tasks' = [t \in T |-> IF t \in 1 .. Len(multi.urls)
                             THEN ExtractTask(multi.urls[t])
                             ELSE tasks[t]]
    /\ UNCHANGED <<pipeVars, extVars, initVars, batch, semaphore, callVars, pages>>

\* what "await asyncio.gather(*tasks)" gives: the results in the order of the
\* tasks
MultiResults(urls) == [i \in 1 .. Len(urls) |-> tasks[i].exres]

\* extract_multiple lines 468-476; gather re-raises the exception of a task,
\* and line 474 divides by len(urls)
MultiFinish ==
    /\ multi.pc = "gather"
    /\ \A t \in 1 .. Len(multi.urls) : tasks[t].pc \in {"extracted", "raised"}
    /\ IF \/ \E t \in 1 .. Len(multi.urls) : tasks[t].pc = "raised"
          \/ SummaryRaises(multi.urls)
       THEN multi' = [multi EXCEPT !.pc = "raised"]
       ELSE multi' = [multi EXCEPT !.pc = "returned",
                                   !.results = MultiResults(multi.urls)]
    /\ UNCHANGED <<pipeVars, extVars, initVars, tasks, batch, semaphore,
                   callVars, pages>>

ExtractorNext ==
    \/ ExtEnter
    \/ ExtExit
    \/ MultiStart
    \/ \E t \in T : \/ ExtAcquire(t)
                    \/ ExtFinish(t)
    \/ MultiFinish

ExtractorSpec == ExtractorInit /\ [][ExtractorNext]_vars

(***************************************************************************)
(* Fairness: the event loop runs a coroutine that is ready, and a call of  *)
(* a collaborator comes back.                                              *)
(***************************************************************************)
LiveSpec == Spec /\ WF_vars(Next)

\* a run whose only call is analyze_multiple_urls(urls), some of the pages
\* never finishing to load; every other call of a collaborator comes back
HangInit ==
    /\ Unconstructed
    /\ NoCalls
    /\ faults = 0
    /\ tasks = [t \in T |-> IdleTask]
    /\ \E urls \in HangLists : batch = [IdleBatch EXCEPT !.pc = "called",
                                                         !.urls = urls]

HangSpec == HangInit /\ [][Next]_vars /\ WF_vars(Next)

(***************************************************************************)
(* VectorSearchEngine.search on its own.  Distances are counted in steps   *)
(* of 1/DistScale and confidences in steps of 1/(2*DistScale), so that     *)
(* 1 - d/2 is exact.                                                       *)
(***************************************************************************)
DistScale == 2
    \* steps per unit of distance
MaxTopK == 3
    \* largest top_k of a call

\* confidence 1.0
ConfOne == 2 * DistScale

\* the distances a collection answers with: cosine distance lies in [0, 2];
\* the collection load_taxonomy_embeddings recreates has no "hnsw:space" and
\* answers with squared L2 distance, in [0, 4] for unit vectors
MaxDistance == 4 * DistScale
Distances == 0 .. MaxDistance

CategoryIds == 1 .. NumCategories

Max(a, b) == IF a >= b THEN a ELSE b

\* for comparison: the distance is not halved
ConfidenceUnhalved(distance) == Max(0, ConfOne - 2 * distance)

\* "confidence = max(0.0, 1.0 - (distance / 2.0))"
Confidence(distance) == Max(0, ConfOne - distance)

\* what collection.query(query_embeddings, n_results=top_k) can answer: at
\* most top_k of the stored categories, nearest first
StoreAnswers(top_k) ==
    UNION {
        { [i \in 1 .. n |-> [id |-> ids[i], distance |-> ds[i]]] :
            ids \in {f \in [1 .. n -> CategoryIds] :
                        \A i, j \in 1 .. n : i # j => f[i] # f[j]},
            ds \in {g \in [1 .. n -> Distances] :
                        \A i, j \in 1 .. n : i <= j => g[i] <= g[j]} }
        : n \in 0 .. (IF top_k < NumCategories THEN top_k ELSE NumCategories) }

\* the SearchResult built for one entry of the answer
ToSearchResult(entry) ==
    [category_id |-> entry.id, confidence |-> Confidence(entry.distance),
     distance |-> entry.distance]

\* for comparison: the matches are put in the order of their ids
SearchResultsById(results, confidence_threshold) ==
    LET kept == SelectSeq([i \in 1 .. Len(results) |-> ToSearchResult(results[i])],
                          LAMBDA r : r.confidence >= confidence_threshold)
        rank(i) == Cardinality({j \in 1 .. Len(kept) :
                                   kept[j].category_id <= kept[i].category_id})
    IN  [k \in 1 .. Len(kept) |->
            kept[CHOOSE i \in 1 .. Len(kept) : rank(i) = k]]

\* for comparison: matches of confidence 0 are dropped
SearchResultsPositive(results, confidence_threshold) ==
    SelectSeq([i \in 1 .. Len(results) |-> ToSearchResult(results[i])],
              LAMBDA r : r.confidence >= confidence_threshold /\ r.confidence > 0)

\* the loop over results['ids'][0]: the entries whose confidence reaches the
\* threshold, in the order of the answer
SearchResults(results, confidence_threshold) ==
    SelectSeq([i \in 1 .. Len(results) |-> ToSearchResult(results[i])],
              LAMBDA r : r.confidence >= confidence_threshold)

\* the default of the parameter confidence_threshold
DefaultThreshold == 0

\* search(query_embedding, top_k, confidence_threshold) is called on an
\* initialized engine; the store answers the query with results
SearchInit ==
    /\ Unconstructed
    /\ max_concurrent_extractions = 1
    /\ total_embeddings = NumCategories
    /\ faults = 0
    /\ tasks = [t \in T |-> IdleTask]
    /\ batch = IdleBatch
    /\ embed_call = NoEmbed
    /\ store = NoStore
    /\ route_call = NoRequest
    /\ \E top_k \in 1 .. MaxTopK, threshold \in 0 .. ConfOne :
         \E results \in StoreAnswers(top_k) :
            search_call = [NoSearch EXCEPT !.pc = "called", !.top_k = top_k,
                              !.confidence_threshold = threshold,
                              !.results = results]

\* lines 192-234: the query, the loop, the metrics
Search ==
    /\ search_call.pc = "called"
    /\ LET search_results == SearchResults(search_call.results,
                                           search_call.confidence_threshold)
       IN  search_call' = [search_call EXCEPT !.pc = "returned",
                              !.search_results = search_results,
                              !.num_results = Len(search_results)]
    /\ UNCHANGED <<pipeVars, extVars, initVars, tasks, batch, semaphore, multi,
                   embed_call, store, pages, route_call>>

SearchSpec == SearchInit /\ [][Search]_vars

(***************************************************************************)
(* MultiGPUEmbedder.embed_content on its own.  A vector is described by    *)
(* its length and by what its norm is: "zero", "unit", "nonzero", or "nan" *)
(* for the outcome of 0/0.  Nothing inside embed_content suspends.         *)
(***************************************************************************)
MaxImages == 3
    \* most images of a ContentBundle

TextDim == 384
ImageDim == 768
FusedDim == 512

Vector(dim, norm) == [dim |-> dim, norm |-> norm]
NoVector == Vector(0, "zero")

\* an image CLIP processes, and one whose processing raises
ImageKinds == {"ok", "bad"}
ImageLists == UNION {[1 .. n -> ImageKinds] : n \in 0 .. MaxImages}

\* "if not text.strip(): return np.zeros(384)", else the encoder's output
EmbedText(text) ==
    IF text = "" THEN Vector(TextDim, "zero") ELSE Vector(TextDim, "nonzero")

\* _embed_text raises: the encoder is called and cleanup() has deleted it
EmbedTextRaises(text, models) == text # "" /\ models # "ready"

\* for comparison: the exception of an image leaves the loop
EmbedImageExceptReraise(image) == [raised |-> TRUE, vec |-> NoVector]

\* "except Exception as e: ... embeddings.append(np.zeros(768))"
EmbedImageExcept(image) == [raised |-> FALSE, vec |-> Vector(ImageDim, "zero")]

\* the body of the loop for one image: the features, normalized, or the
\* except branch when the processor or the model raises
EmbedImage(image, models) ==
    IF image = "bad" \/ models # "ready"
    THEN EmbedImageExcept(image)
    ELSE [raised |-> FALSE, vec |-> Vector(ImageDim, "unit")]

\* _embed_images: "if not images: return []", else one entry per image
EmbedImages(images, models) ==
    [raised |-> \E i \in 1 .. Len(images) : EmbedImage(images[i], models).raised,
     vecs |-> [i \in 1 .. Len(images) |-> EmbedImage(images[i], models).vec]]

\* AttentionFusion.forward ends in LayerNorm: its output is the zero vector
\* when the activations it normalizes are all equal, and has a norm otherwise
FusionCandidate(text_emb, image_embs, constant_activation) ==
    Vector(FusedDim, IF constant_activation THEN "zero" ELSE "nonzero")

\* "fused = fused / fused.norm(dim=-1, keepdim=True)"
Normalize(vec) ==
    Vector(vec.dim, IF vec.norm = "zero" THEN "nan" ELSE "unit")

\* _fuse_embeddings, on an embedder whose fusion layer exists
FuseEmbeddings(text_emb, image_embs, constant_activation) ==
    Normalize(FusionCandidate(text_emb, image_embs, constant_activation))

\* embed_content(content) is called: the text is empty or not, each image
\* is processable or not, the models are loaded or deleted, and the weights
\* of the fusion layer give the input equal activations or not
EmbedInit ==
    /\ Unconstructed
    /\ max_concurrent_extractions = 1
    /\ total_embeddings = NumCategories
    /\ faults = 0
    /\ tasks = [t \in T |-> IdleTask]
    /\ batch = IdleBatch
    /\ search_call = NoSearch
    /\ store = NoStore
    /\ route_call = NoRequest
    /\ \E text \in {"", "text"}, images \in ImageLists,
          models \in {"ready", "cleaned"}, constant_activation \in BOOLEAN :
         embed_call = [NoEmbed EXCEPT !.pc = "called", !.text = text,
                          !.images = images, !.models = models,
                          !.constant_activation = constant_activation]

\* embed_content, lines 185-213
EmbedContent ==
    /\ embed_call.pc = "called"
    /\ LET text_embedding == EmbedText(embed_call.text)
           imgs == EmbedImages(embed_call.images, embed_call.models)
       IN  IF EmbedTextRaises(embed_call.text, embed_call.models)
           THEN embed_call' = [embed_call EXCEPT !.pc = "raised"]
           ELSE IF imgs.raised
           THEN embed_call' = [embed_call EXCEPT !.pc = "raised",
                                  !.text_embedding = text_embedding]
           ELSE IF embed_call.models # "ready"
           THEN embed_call' = [embed_call EXCEPT !.pc = "raised",
                                  !.text_embedding = text_embedding,
                                  !.image_embeddings = imgs.vecs]
           ELSE embed_call' =
                  [embed_call EXCEPT !.pc = "returned",
                      !.text_embedding = text_embedding,
                      !.image_embeddings = imgs.vecs,
                      !.fused_embedding =
                          FuseEmbeddings(text_embedding, imgs.vecs,
                                         embed_call.constant_activation)]
    /\ UNCHANGED <<pipeVars, extVars, initVars, tasks, batch, semaphore, multi,
                   search_call, store, pages, route_call>>

EmbedSpec == EmbedInit /\ [][EmbedContent]_vars

(***************************************************************************)
(* The persistent store of VectorSearchEngine on its own: the collection   *)
(* on disk, engines constructed over it, and load_taxonomy_embeddings      *)
(* calls.  Nothing inside load_taxonomy_embeddings suspends.               *)
(***************************************************************************)
\* the lists of categories of a call, by their ids
CategoryLists == UNION {[1 .. n -> CategoryIds] : n \in 0 .. NumCategories}

Range(s) == {s[i] : i \in 1 .. Len(s)}

\* "metadata={..., "hnsw:space": "cosine"}" of _initialize_chromadb
CreatedSpace == "cosine"
\* create_collection of load_taxonomy_embeddings passes no "hnsw:space": the
\* collection gets the default of the store, squared L2
RecreatedSpace == "l2"

\* the largest distance a collection of this space answers for unit vectors
SpaceMaxDistance(space) ==
    IF space = "cosine" THEN 2 * DistScale ELSE MaxDistance

\* get_collection, or create_collection when there is none
InitializeChromadb(collection) ==
    IF collection.space # "none" THEN collection
    ELSE [space |-> CreatedSpace, ids |-> {}]

\* for comparison: a collection that holds items is left as it is
ClearIfFilledNever(collection) == collection

\* "if current_count > 0: delete_collection; create_collection"
ClearIfFilled(collection) ==
    IF Cardinality(collection.ids) > 0
    THEN [space |-> RecreatedSpace, ids |-> {}]
    ELSE collection

\* collection.add raises: the store fails, the ids are not distinct, or the
\* list is empty
AddRaises(categories, add_fails) ==
    \/ add_fails
    \/ Len(categories) = 0
    \/ \E i, j \in 1 .. Len(categories) : i # j /\ categories[i] = categories[j]

\* lines 104-105
LengthMismatch(categories, num_embeddings) == Len(categories) # num_embeddings

StoreInit ==
    /\ Unconstructed
    /\ max_concurrent_extractions = 1
    /\ total_embeddings = 0
    /\ faults = 0
    /\ tasks = [t \in T |-> IdleTask]
    /\ batch = IdleBatch
    /\ search_call = NoSearch
    /\ embed_call = NoEmbed
    /\ store = NoStore
    /\ route_call = NoRequest

\* VectorSearchEngine(): __init__ and _initialize_chromadb, over the
\* directory an earlier engine may have filled
Construct ==
    /\ store' = [store EXCEPT !.engine = TRUE,
                    !.collection = InitializeChromadb(store.collection),
                    !.pc = "idle"]
    /\ UNCHANGED <<pipeVars, extVars, initVars, tasks, batch, semaphore, multi,
                   search_call, embed_call, pages, route_call>>

\* load_taxonomy_embeddings(categories, embeddings), lines 104-168
LoadTaxonomyEmbeddings ==
    /\ store.engine
    /\ \E categories \in CategoryLists, add_fails \in BOOLEAN :
       \E num_embeddings \in {Len(categories), Len(categories) + 1} :
         LET cleared == ClearIfFilled(store.collection)
             call == [store EXCEPT !.categories = categories,
                                   !.num_embeddings = num_embeddings,
                                   !.before = store.collection]
         IN  IF LengthMismatch(categories, num_embeddings)
             THEN store' = [call EXCEPT !.pc = "raised"]
             ELSE IF AddRaises(categories, add_fails)
             THEN store' = [call EXCEPT !.pc = "raised", !.collection = cleared]
             ELSE store' = [call EXCEPT !.pc = "returned",
                               !.collection =
                                   [cleared EXCEPT !.ids = @ \cup Range(categories)]]
    /\ UNCHANGED <<pipeVars, extVars, initVars, tasks, batch, semaphore, multi,
                   search_call, embed_call, pages, route_call>>

StoreNext == Construct \/ LoadTaxonomyEmbeddings

StoreSpec == StoreInit /\ [][StoreNext]_vars

(***************************************************************************)
(*                              The claims                                 *)
(***************************************************************************)
BatchTasks == 1 .. Len(batch.urls)

\* C1: the list analyze_multiple_urls returns has one record per URL of the
\* input, and record i carries urls[i], whatever happened to each URL: a
\* success, a failed stage, or an exception gather handed back.
C1_BatchOutputMatchesInput ==
    batch.pc = "returned" =>
        /\ Len(batch.results) = Len(batch.urls)
        /\ \A i \in 1 .. Len(batch.urls) : batch.results[i].url = batch.urls[i]

\* a batch of two came back, one URL ended in an exception at the batch
\* boundary and another one in a record of analyze_url
C1_Witness ==
    /\ batch.pc = "returned"
    /\ Len(batch.urls) >= 2
    /\ \E i \in BatchTasks : tasks[i].pc = "raised"
    /\ \E i \in BatchTasks : tasks[i].pc = "done"

\* what analyze_url(url) returns on an initialized pipeline that runs nothing
\* else: the stages one after the other
AloneResult(url) ==
    LET out == SingleUrlResult(url, "open")
    IN  IF StopAfterExtraction(out.res)
        THEN ExtractionFailedResult(url, out.res)
        ELSE IF EmbedRaises(url) THEN ExceptionResult(url, "embedding failed")
        ELSE IF QueryRaises(url) THEN ExceptionResult(url, "search failed")
        ELSE AfterSearch(url, out.res, QueryIds(url))

\* one initialize() built the components: no second call of initialize()
\* has put a ContentExtractor without a browser in the place of the first
InitializedOnce == content_extractor = 1

\* C2: in a batch every URL gets the success value and the matches it gets
\* when it is analysed alone on the initialized pipeline, whichever of its
\* siblings fail in extraction, embedding or search.
C2_SiblingsIndependent ==
    (batch.pc = "returned" /\ InitializedOnce) =>
        \A i \in 1 .. Len(batch.urls) :
            /\ batch.results[i].success = AloneResult(batch.urls[i]).success
            /\ batch.results[i].top_categories
                   = AloneResult(batch.urls[i]).top_categories

\* a batch came back whose first URL failed and whose second one succeeded
C2_Witness ==
    /\ batch.pc = "returned"
    /\ InitializedOnce
    /\ Len(batch.urls) >= 2
    /\ ~batch.results[1].success
    /\ batch.results[2].success
    /\ Len(batch.results[2].top_categories) > 0

InFlight(e) == {t \in T : tasks[t].pc = "extracting" /\ tasks[t].ext = e}

\* C3: on each ContentExtractor at most max_concurrent executions of
\* _extract_single_url are in flight, and the semaphore counts them.
C3_InFlightBounded ==
    \A e \in ExtIds :
        /\ Cardinality(InFlight(e)) <= max_concurrent_extractions
        /\ e = content_extractor =>
               permits[e] = max_concurrent_extractions - Cardinality(InFlight(e))

\* the bound is 2, two extractions are in flight and a third caller waits
C3_Witness ==
    /\ max_concurrent_extractions = 2
    /\ Cardinality(InFlight(1)) = 2
    /\ \E t \in T : tasks[t].pc = "extWait"

Started(t) ==
    /\ tasks[t].mode = "analyze"
    /\ tasks[t].pc \in {"extWait", "extracting", "embedding", "searching"}

\* C4 as claimed: over the whole pipeline at most max_concurrent_extractions
\* executions of analyze_url have started their extraction and not returned.
C4_PipelineWideBound ==
    Cardinality({t \in T : Started(t)}) <= max_concurrent_extractions

\* what the semaphore of line 299 does bound: the coroutines of the one
\* analyze_multiple_urls call that created it
PerBatchBound ==
    Cardinality({t \in T : t >= 1 /\ (Started(t) \/ tasks[t].pc = "initializing")})
        <= max_concurrent_extractions

\* C5 as claimed: no analyze_url ends by raising.
C5_AnalyzeNeverRaises ==
    \A t \in T : tasks[t].mode = "analyze" => tasks[t].pc # "raised"

\* C6 as claimed: a search that returned no match ends in a record with
\* success = true, no category and the measured timings.
C6_ZeroMatchesSucceed ==
    \A t \in T :
        ( /\ tasks[t].pc = "done"
          /\ tasks[t].nSea = 1
          /\ ~QueryRaises(tasks[t].url)
          /\ QueryIds(tasks[t].url) = << >> )
        => /\ tasks[t].rec.success
           /\ tasks[t].rec.top_categories = << >>
           /\ tasks[t].rec.extraction_time = "measured"
           /\ tasks[t].rec.embedding_time = "measured"
           /\ tasks[t].rec.search_time_ms = "measured"

\* C7: extraction, embedding, search in this order; embedding only after a
\* successful extraction, search only after the embedding returned; after the
\* first failed stage no later stage is called and the record is a failure.
C7_StagesInOrder ==
    \A t \in T : tasks[t].mode = "analyze" =>
        /\ tasks[t].pc \in {"extWait", "extracting"} =>
               tasks[t].nEmb = 0 /\ tasks[t].nSea = 0
        /\ tasks[t].nEmb > 0 => tasks[t].nExt > 0 /\ tasks[t].exres.success
        /\ tasks[t].pc = "embedding" => tasks[t].nSea = 0
        /\ tasks[t].nSea > 0 => tasks[t].nEmb > 0 /\ ~EmbedRaises(tasks[t].url)
        /\ tasks[t].pc = "done" =>
               /\ tasks[t].nExt > 0
               /\ ~tasks[t].exres.success =>
                      tasks[t].nEmb = 0 /\ tasks[t].nSea = 0
               /\ EmbedRaises(tasks[t].url) => tasks[t].nSea = 0
               /\ tasks[t].nSea = 0 => ~tasks[t].rec.success
               /\ QueryRaises(tasks[t].url) => ~tasks[t].rec.success

\* one call stopped after a failed extraction, one after a failed embedding
C7_Witness ==
    /\ \E t \in T : /\ tasks[t].pc = "done"
                    /\ tasks[t].nExt = 1
                    /\ ~tasks[t].exres.success
                    /\ tasks[t].nEmb = 0
    /\ \E t \in T : /\ tasks[t].pc = "done"
                    /\ tasks[t].nEmb = 1
                    /\ EmbedRaises(tasks[t].url)
                    /\ tasks[t].nSea = 0

\* C8: extract_content never raises; what goes wrong with a page ends in an
\* ExtractionResult with success = false, no text, no image and a message;
\* extract_multiple gives one result per URL, in the order of the URLs.
C8_ExtractNeverRaises ==
    /\ \A t \in T : tasks[t].mode = "extract" =>
          /\ tasks[t].pc # "raised"
          /\ tasks[t].pc = "extracted" =>
                /\ tasks[t].exres.url = tasks[t].url
                /\ ~GotoSucceeds(tasks[t].url) => ~tasks[t].exres.success
                /\ ~tasks[t].exres.success =>
                      /\ tasks[t].exres.text = ""
                      /\ tasks[t].exres.images = << >>
                      /\ tasks[t].exres.error_message # None
    /\ Len(multi.urls) > 0 => multi.pc # "raised"
    /\ multi.pc = "returned" =>
          /\ Len(multi.results) = Len(multi.urls)
          /\ \A i \in 1 .. Len(multi.urls) :
                multi.results[i].url = multi.urls[i]

\* extract_multiple came back with a failure first and a success second
C8_Witness ==
    /\ multi.pc = "returned"
    /\ Len(multi.urls) >= 2
    /\ ~multi.results[1].success
    /\ multi.results[1].error_message # None
    /\ multi.results[2].success

\* C9: a call of analyze_url calls each stage at most once, and a batch has
\* one record per position.
C9_OneAttempt ==
    /\ \A t \in T : tasks[t].nExt <= 1 /\ tasks[t].nEmb <= 1 /\ tasks[t].nSea <= 1
    /\ batch.pc = "returned" => DOMAIN batch.results = 1 .. Len(batch.urls)

\* a call ended after a search that raised, having searched once
C9_Witness ==
    \E t \in T : /\ tasks[t].pc = "done"
                 /\ QueryRaises(tasks[t].url)
                 /\ tasks[t].nSea = 1
                 /\ ~tasks[t].rec.success

\* C10: a batch of more URLs than permits: every URL gets its permit and its
\* record, and the call returns.
C10_EveryUrlServed ==
    \A i \in 1 .. MaxUrls :
        ( /\ batch.pc = "gather"
          /\ i <= Len(batch.urls)
          /\ Len(batch.urls) > max_concurrent_extractions )
        ~> ( /\ batch.pc = "returned"
             /\ tasks[i].pc = "done"
             /\ batch.results[i] = tasks[i].rec )

\* a batch of more URLs than permits has returned
C10_Witness ==
    /\ batch.pc = "returned"
    /\ Len(batch.urls) > max_concurrent_extractions
    /\ \A i \in BatchTasks : tasks[i].pc = "done"

HungUrls == {i \in BatchTasks : Hangs(batch.urls[i])}

\* C11: with a bound of at least 2 and the extraction of one URL of the batch
\* never returning, every other URL of the batch gets to its record.
C11_HangBlocksOnlyItself ==
    \A i \in 1 .. MaxUrls :
        ( /\ batch.pc = "gather"
          /\ max_concurrent_extractions >= 2
          /\ Cardinality(HungUrls) = 1
          /\ i \in BatchTasks \ HungUrls )
        ~> tasks[i].pc = "done"

\* the first URL hangs inside its extraction, holding its permits, and the
\* second one has its record
C11_Witness ==
    /\ batch.pc = "gather"
    /\ max_concurrent_extractions >= 2
    /\ HungUrls = {1}
    /\ tasks[1].pc = "extracting"
    /\ semaphore = max_concurrent_extractions - 1
    /\ Len(batch.urls) = 2
    /\ tasks[2].pc = "done"
    /\ tasks[2].rec.success


Returned == search_call.pc = "returned"
Matches == 1 .. Len(search_call.search_results)

\* C12: a match at a distance d of [0, 2] has the confidence 1 - d/2: it lies
\* in [0, 1], is 1 at d = 0 and 0 at d = 2, and of two matches the nearer one
\* never has the smaller confidence.
C12_ConfidenceOfDistance ==
    Returned =>
        \A k \in Matches :
            LET m == search_call.search_results[k]
            IN  m.distance <= 2 * DistScale =>
                  /\ m.confidence = ConfOne - m.distance
                  /\ m.confidence >= 0 /\ m.confidence <= ConfOne
                  /\ m.distance = 0 => m.confidence = ConfOne
                  /\ m.distance = 2 * DistScale => m.confidence = 0
                  /\ \A j \in Matches :
                        search_call.search_results[j].distance <= m.distance
                        => search_call.search_results[j].confidence >= m.confidence

\* a call returned matches at the distances 0, 1.0 and 2.0
C12_Witness ==
    /\ Returned
    /\ \E k \in Matches : search_call.search_results[k].distance = 0
    /\ \E k \in Matches : /\ search_call.search_results[k].distance = DistScale
                          /\ 2 * search_call.search_results[k].confidence = ConfOne
    /\ \E k \in Matches : search_call.search_results[k].distance = 2 * DistScale

\* C13: the matches are a prefix of the store's answer, in its order: those
\* and only those entries whose confidence reaches the threshold; their
\* confidences never increase along the list.
C13_StoreOrderKept ==
    Returned =>
        LET sr == search_call.search_results
            st == search_call.results
        IN  /\ Len(sr) <= Len(st)
            /\ \A k \in 1 .. Len(sr) :
                  /\ sr[k].category_id = st[k].id
                  /\ sr[k].distance = st[k].distance
                  /\ sr[k].confidence >= search_call.confidence_threshold
            /\ \A k \in (Len(sr) + 1) .. Len(st) :
                  Max(0, ConfOne - st[k].distance) < search_call.confidence_threshold
            /\ \A j, k \in 1 .. Len(sr) :
                  j <= k => sr[j].confidence >= sr[k].confidence

\* the store answered with three entries, the first two at the same distance
\* and not in the order of their ids; the threshold cut the third one off
C13_Witness ==
    /\ Returned
    /\ Len(search_call.results) = 3
    /\ search_call.results[1].distance = search_call.results[2].distance
    /\ search_call.results[1].id > search_call.results[2].id
    /\ search_call.confidence_threshold > 0
    /\ Len(search_call.search_results) = 2
    /\ search_call.search_results[1].category_id = search_call.results[1].id

\* the store of the scenario: three categories at the distances 0, 1.0, 2.0
ScenarioB ==
    /\ search_call.top_k = 3
    /\ Len(search_call.results) = 3
    /\ search_call.results[1].distance = 0
    /\ search_call.results[2].distance = DistScale
    /\ search_call.results[3].distance = 2 * DistScale

\* C14: with the default threshold every entry of the answer is a match; the
\* distances 0, 1.0, 2.0 give the confidences 1.0, 0.5, 0.0 in this order; a
\* call returns at most top_k matches, and num_results counts them.
C14_DefaultKeepsAll ==
    Returned =>
        /\ Len(search_call.search_results) <= search_call.top_k
        /\ search_call.num_results = Len(search_call.search_results)
        /\ search_call.confidence_threshold = DefaultThreshold =>
              /\ Len(search_call.search_results) = Len(search_call.results)
              /\ ScenarioB =>
                    /\ search_call.search_results[1].confidence = ConfOne
                    /\ 2 * search_call.search_results[2].confidence = ConfOne
                    /\ search_call.search_results[3].confidence = 0
                    /\ \A k \in 1 .. 3 : search_call.search_results[k].category_id
                                            = search_call.results[k].id

\* the scenario's call has returned, with the default threshold
C14_Witness ==
    /\ Returned
    /\ ScenarioB
    /\ search_call.confidence_threshold = DefaultThreshold
    /\ search_call.num_results = 3


\* C15 as claimed: the record of a call whose extraction succeeded and whose
\* embedding or search raised carries the measured extraction_time.
C15_ExtractionTimeKept ==
    \A t \in T :
        ( /\ tasks[t].mode = "analyze"
          /\ tasks[t].pc = "done"
          /\ tasks[t].exres.success
          /\ tasks[t].nEmb = 1
          /\ EmbedFails(tasks[t].url) \/ QueryRaises(tasks[t].url) )
        => tasks[t].rec.extraction_time = "measured"

\* the timing fields of an AnalysisResult
TimingFields == {"extraction_time", "embedding_time", "search_time_ms", "total_time"}

\* a duration the code measured (a difference of two clock readings), or the
\* literal 0.0: neither is negative
NonNegative == {"measured", "0.0"}

WellFormed(rec) ==
    /\ TimingFields \subseteq DOMAIN rec
    /\ \A f \in TimingFields : rec[f] \in NonNegative
    /\ rec.success => rec.error_message = None
    /\ ~rec.success => /\ rec.error_message # None
                       /\ rec.top_categories = << >>
                       /\ rec.embedding_dimension = 0

\* C16: every record analyze_url or analyze_multiple_urls returns has its four
\* timing fields, none negative; a success has no error message; a failure
\* has one, no category and the embedding dimension 0.
C16_RecordsWellFormed ==
    /\ \A t \in T : (tasks[t].mode = "analyze" /\ tasks[t].pc = "done")
                       => WellFormed(tasks[t].rec)
    /\ batch.pc = "returned" =>
          \A i \in 1 .. Len(batch.results) : WellFormed(batch.results[i])

\* a batch returned a record made of an exception next to a success and to a
\* failure analyze_url reported itself
C16_Witness ==
    /\ batch.pc = "returned"
    /\ \E i \in BatchTasks : /\ tasks[i].pc = "raised"
                             /\ batch.results[i].error_message = tasks[i].exc
                             /\ batch.results[i].total_time = "0.0"
    /\ \E i \in BatchTasks : \/ batch.results[i].success
                             \/ /\ tasks[i].pc = "done"
                                /\ ~batch.results[i].success


\* the caller c gets to "await self.search_engine.load_taxonomy_embeddings(...)"
\* in this step: the collection is cleared if it is filled, and filled
LoadStarts(c) ==
    /\ ipc[c] = "load_taxonomy"
    /\ ipc'[c] = "none"
    /\ initialized'

\* some analyze_url has called search
SearchIssued == \E t \in T : tasks[t].nSea > 0

\* C17 as claimed: no load_taxonomy_embeddings call starts once a search has
\* been issued on the pipeline.
C17_LoadsPrecedeSearches ==
    [][\A c \in Callers : LoadStarts(c) => ~SearchIssued]_vars


EmbedDone == embed_call.pc \in {"returned", "raised"}

\* C18: _embed_images gives one vector per image, in the order of the
\* images: a 768-dimensional zero vector where processing the image raised
\* and the normalized features elsewhere; no failing image stops the other
\* images, and none makes embed_content on a loaded embedder raise.
C18_ImageFailuresAbsorbed ==
    EmbedDone =>
        /\ embed_call.models = "ready" => embed_call.pc = "returned"
        /\ ~EmbedTextRaises(embed_call.text, embed_call.models) =>
             /\ Len(embed_call.image_embeddings) = Len(embed_call.images)
             /\ \A i \in 1 .. Len(embed_call.images) :
                  /\ embed_call.image_embeddings[i].dim = ImageDim
                  /\ embed_call.image_embeddings[i].norm =
                       IF embed_call.images[i] = "bad" \/ embed_call.models # "ready"
                       THEN "zero" ELSE "unit"

\* a failing image between two good ones: the request returned, with the
\* zero vector in the middle and features on both sides
C18_Witness ==
    /\ embed_call.pc = "returned"
    /\ embed_call.images = <<"ok", "bad", "ok">>
    /\ embed_call.image_embeddings[1].norm = "unit"
    /\ embed_call.image_embeddings[2] = Vector(ImageDim, "zero")
    /\ embed_call.image_embeddings[3].norm = "unit"

\* C19: a fusion candidate of zero norm is returned as the zero vector
\* rather than divided by its norm; empty text with no images gives the
\* all-zero vector of length 512; every other fused vector has unit norm.
C19_ZeroNormGivesZeroVector ==
    embed_call.pc = "returned" =>
        LET candidate == FusionCandidate(embed_call.text_embedding,
                                         embed_call.image_embeddings,
                                         embed_call.constant_activation)
            empty == embed_call.text = "" /\ embed_call.images = << >>
        IN  embed_call.fused_embedding =
              IF candidate.norm = "zero" \/ empty
              THEN Vector(FusedDim, "zero")
              ELSE Vector(FusedDim, "unit")

\* C20: analyze_multiple_urls([]) returns the empty list and does not raise.
C20_EmptyBatchReturns ==
    /\ batch.pc = "raised" => Len(batch.urls) > 0
    /\ batch.pc = "returned" => Len(batch.results) = Len(batch.urls)


\* C21: after VectorSearchEngine() and any sequence of
\* load_taxonomy_embeddings calls, the collection search queries is
\* configured for cosine distance, so that its distances lie in [0, 2].
C21_CollectionIsCosine ==
    store.engine =>
        /\ store.collection.space = "cosine"
        /\ SpaceMaxDistance(store.collection.space) <= 2 * DistScale


\* C26: when load_taxonomy_embeddings(categories, embeddings) has returned,
\* the store holds exactly the categories of the call, as many as the list
\* is long, whatever it held before.
C26_LoadReplaces ==
    store.pc = "returned" =>
        /\ store.collection.ids = Range(store.categories)
        /\ Cardinality(store.collection.ids) = Len(store.categories)

\* a load into a store that held other categories
C26_Witness ==
    /\ store.pc = "returned"
    /\ store.before.ids # {}
    /\ store.before.ids \ Range(store.categories) # {}
    /\ store.collection.ids = Range(store.categories)

\* C27: a load_taxonomy_embeddings call that raises, on a length mismatch
\* or on a failing insert, leaves the contents and the count of the store
\* as they were before the call.
C27_FailedLoadKeepsStore ==
    store.pc = "raised" =>
        /\ store.collection.ids = store.before.ids
        /\ Cardinality(store.collection.ids) = Cardinality(store.before.ids)


\* get_pipeline_status, lines 341-350
GetPipelineStatus ==
    [initialized |-> initialized, categories_loaded |-> categories_loaded,
     components |-> [embedder |-> embedder # "none",
                     search_engine |-> search_engine # "none",
                     content_extractor |-> content_extractor # 0,
                     matcher |-> matcher]]

\* every entry of status["components"] is b
AllComponents(status, b) ==
    \A k \in DOMAIN status.components : status.components[k] = b

\* the step with which an initialize call sets initialized
InitializeSucceeds == ~initialized /\ initialized'

\* the step with which a cleanup() call ends: after __aexit__, or at once when
\* there is no content extractor to exit
CleanupReturns ==
    \/ \E c \in Callers : ipc[c] = "aexit" /\ ipc'[c] = "none"
    \/ ~CleanupAwaits /\ faults' < faults

\* C22: the components of get_pipeline_status are all false before the first
\* initialize, all true after a successful initialize, and all false again,
\* with initialized and categories_loaded false, once cleanup() has returned.
C22_StatusTracksUsability ==
    [][/\ (embedder = "none" /\ content_extractor = 0 /\ ~matcher)
             => AllComponents(GetPipelineStatus, FALSE)
       /\ InitializeSucceeds => AllComponents(GetPipelineStatus', TRUE)
       /\ CleanupReturns =>
            /\ ~GetPipelineStatus'.initialized
            /\ ~GetPipelineStatus'.categories_loaded
            /\ AllComponents(GetPipelineStatus', FALSE)]_vars


\* the ContentExtractor objects initialize has constructed, and the ones
\* whose browser was launched
Constructed == 1 .. content_extractor
Launched == {e \in ExtIds : browser[e] # "none"}

\* C23: whatever the interleaving of concurrent analyze_url and
\* analyze_multiple_urls calls on a pipeline that is not initialized, the
\* components are constructed once and one browser is launched, and an
\* initialize call on an initialized pipeline changes nothing.
C23_InitializedAtMostOnce ==
    /\ Cardinality(Constructed) <= 1
    /\ Cardinality(Launched) <= 1
    /\ initialized => Cardinality(Constructed) = 1


\* "system_ready" of benchmark_performance, line 397
SystemReady == initialized /\ categories_loaded

\* C24: between any two steps of the coroutines, initialized implies
\* categories_loaded and that embedder, search_engine, content_extractor and
\* matcher are set, so that system_ready is the same as initialized.
C24_InitializedImpliesLoaded ==
    /\ initialized => /\ categories_loaded
                      /\ embedder # "none"
                      /\ search_engine # "none"
                      /\ content_extractor # 0
                      /\ matcher
    /\ SystemReady = initialized

\* initialized is still set while a cleanup() call waits for __aexit__, the
\* models of the embedder already deleted
C24_Witness ==
    /\ initialized
    /\ \E c \in Callers : ipc[c] = "aexit"
    /\ embedder = "cleaned"


\* where the call of c stands
CallerPc(c) == IF c = BatchCaller THEN batch.pc ELSE tasks[c].pc

\* the callers that call initialize
Initializers == Callers \ {CleanupCaller}

\* the step with which the exception of initialize reaches the caller c
InitializeRaises(c) ==
    /\ CallerPc(c) \in {"called", "pending", "initializing"}
    /\ CallerPc(c)' = "raised"

\* C25: when a step of initialize raises (the taxonomy is empty, a
\* constructor or the browser fails), cleanup() is run, initialized and
\* categories_loaded are false when it has returned, the exception reaches
\* the caller, and an initialize call that finds initialized false runs the
\* initialization from its first step.
C25_FailedInitializeCleansUp ==
    [][\A c \in Initializers :
          /\ (ipc[c] = "aexit" /\ ipc'[c] = "none") => InitializeRaises(c)
          /\ InitializeRaises(c) => /\ CleanupReturns
                                    /\ ~initialized'
                                    /\ ~categories_loaded'
          /\ (AtInitCheck(c) /\ ~initialized /\ CallerPc(c)' # CallerPc(c)) =>
                \/ ipc'[c] = "aenter" /\ content_extractor' = content_extractor + 1
                \/ ipc'[c] = "aexit"
                \/ InitializeRaises(c)]_vars

\* the taxonomy was empty: the browser had been launched, cleanup() closed it
\* and deleted the models, and the caller got the exception
C25_Witness ==
    /\ batch.pc = "raised"
    /\ Len(batch.urls) > 0
    /\ total_embeddings = 0
    /\ browser[1] = "closed"
    /\ embedder = "cleaned"
    /\ ~initialized /\ ~categories_loaded


\* the coroutines of gather inside "async with semaphore"
InBatchPermit ==
    {t \in BatchTasks : tasks[t].pc \in {"initializing", "extWait", "extracting",
                                         "embedding", "searching"}}

\* the coroutines inside "async with self.semaphore" of the extractor e
InExtractorPermit(e) == {t \in T : tasks[t].pc = "extracting" /\ tasks[t].ext = e}

\* every permit that is not free is held by a coroutine at the place where
\* the code holds it: the extractor's only during the extraction, inside the
\* batch's, and no longer during embedding and search
PermitsAccounted ==
    /\ batch.pc \in {"gather", "returned"} =>
         semaphore = max_concurrent_extractions - Cardinality(InBatchPermit)
    /\ \A e \in Constructed :
         permits[e] = max_concurrent_extractions - Cardinality(InExtractorPermit(e))

AllCallsDone ==
    /\ batch.pc \in {"returned", "raised"}
    /\ \A t \in T : tasks[t].pc \in {"idle", "done", "raised"}

AllPermitsFree ==
    /\ semaphore = max_concurrent_extractions
    /\ \A e \in Constructed : permits[e] = max_concurrent_extractions

\* C28: the permit of the batch is taken first and the extractor's inside
\* it, the extractor's is given back before the embedding; with collaborators
\* that terminate, a batch and a direct analyze_url running concurrently
\* both complete, and then every permit of both semaphores is free.
C28_PermitsNeverDeadlock ==
    /\ [](PermitsAccounted)
    /\ <>[](AllCallsDone /\ AllPermitsFree)

\* both calls are over, the batch had more URLs than permits, and extractions
\* took place
C28_Witness ==
    /\ AllCallsDone
    /\ AllPermitsFree
    /\ tasks[0].pc = "done"
    /\ Len(batch.urls) > max_concurrent_extractions
    /\ \A t \in BatchTasks : tasks[t].nExt = 1


\* the pages open in the browser of the extractor e
OpenPages(e) == {t \in T : pages[t] = "open" /\ tasks[t].ext = e}

\* no extract_content call is under way
ExtractionsOver == \A t \in T : tasks[t].pc \notin {"extWait", "extracting"}

\* C29: a page _extract_single_url opened is closed when the call returns,
\* after a success and after every failure, and before the permit of the
\* call is given back; when all extractions are over no page is open.
C29_PagesClosed ==
    /\ \A t \in T : pages[t] = "open" => tasks[t].pc = "extracting"
    /\ \A e \in ExtIds : Cardinality(OpenPages(e)) > 0 =>
         Cardinality(OpenPages(e)) + permits[e] <= max_concurrent_extractions
    /\ ExtractionsOver => \A t \in T : pages[t] # "open"

\* the extractions are over: one ended with a result, one with a failed
\* navigation, and the pages of both are closed
C29_Witness ==
    /\ ExtractionsOver
    /\ \E t, u \in T :
         /\ pages[t] = "closed" /\ tasks[t].exres.success
         /\ pages[u] = "closed" /\ tasks[u].exres.error_message = "HTTP 404"


(***************************************************************************)
(* GET /categories (backend/app/api/routes.py, list_categories) against a  *)
(* pipeline in one of the states its life goes through.                    *)
(***************************************************************************)
Sources == {None, "iab", "google", "facebook"}
Limits == {0, 1, 1000}

HTTPException(status_code, detail) ==
    [raised |-> TRUE, http |-> TRUE, status_code |-> status_code, detail |-> detail]

\* str(e) of an HTTPException: its status code and its detail
StrOfHTTPException(status_code, detail) ==
    IF status_code = 503 THEN "503: " \o detail ELSE detail

\* the body of the try, lines 283-299: what it raises, or that it returns
ListCategoriesBody(status, stats_raises) ==
    IF stats_raises
    THEN [raised |-> TRUE, http |-> FALSE, status_code |-> 0,
          detail |-> "store error"]
    ELSE IF ~status.categories_loaded
    THEN HTTPException(503, "Categories not loaded")
    ELSE [raised |-> FALSE, http |-> FALSE, status_code |-> 200, detail |-> ""]

\* "except Exception as e: raise HTTPException(status_code=500, ...)"; an
\* HTTPException is an Exception
ListCategoriesExcept(out) ==
    IF out.raised
    THEN [status_code |-> 500,
          detail |-> "Failed to retrieve categories: " \o
                     (IF out.http THEN StrOfHTTPException(out.status_code, out.detail)
                                  ELSE out.detail)]
    ELSE [status_code |-> out.status_code, detail |-> out.detail]

\* a pipeline that was constructed, one that is initialized, and one that
\* was cleaned up after it
PipelineConstructed ==
    /\ initialized = FALSE /\ categories_loaded = FALSE
    /\ embedder = "none" /\ search_engine = "none" /\ content_extractor = 0
    /\ matcher = FALSE
    /\ total_embeddings \in {0, NumCategories}
    /\ browser = [e \in ExtIds |-> "none"]
    /\ permits = [e \in ExtIds |-> 0]

PipelineInitialized ==
    /\ initialized = TRUE /\ categories_loaded = TRUE
    /\ embedder = "ready" /\ search_engine = "ready" /\ content_extractor = 1
    /\ matcher = TRUE
    /\ total_embeddings = NumCategories
    /\ browser = [e \in ExtIds |-> IF e = 1 THEN "open" ELSE "none"]
    /\ permits = [e \in ExtIds |-> IF e = 1 THEN max_concurrent_extractions ELSE 0]

PipelineCleanedUp ==
    /\ initialized = FALSE /\ categories_loaded = FALSE
    /\ embedder = "cleaned" /\ search_engine = "ready" /\ content_extractor = 1
    /\ matcher = TRUE
    /\ total_embeddings = NumCategories
    /\ browser = [e \in ExtIds |-> IF e = 1 THEN "closed" ELSE "none"]
    /\ permits = [e \in ExtIds |-> IF e = 1 THEN max_concurrent_extractions ELSE 0]

\* a request arrives: the startup event has not run (no pipeline), or the
\* pipeline is in one of these states
RouteInit ==
    /\ max_concurrent_extractions = 1
    /\ ipc = [c \in Callers |-> "none"]
    /\ iext = [c \in Callers |-> 0]
    /\ faults = 0
    /\ semaphore = 0
    /\ multi = IdleBatch
    /\ batch = IdleBatch
    /\ tasks = [t \in T |-> IdleTask]
    /\ pages = [t \in T |-> "none"]
    /\ search_call = NoSearch /\ embed_call = NoEmbed /\ store = NoStore
    /\ \E pipeline \in BOOLEAN, source \in Sources, limit \in Limits,
          stats_raises \in BOOLEAN :
         /\ route_call = [NoRequest EXCEPT !.pc = "called", !.pipeline = pipeline,
                             !.source = source, !.limit = limit,
                             !.stats_raises = stats_raises]
         /\ IF pipeline
            THEN PipelineConstructed \/ PipelineInitialized \/ PipelineCleanedUp
            ELSE PipelineConstructed

\* get_statistics is called, and can raise, when there is a search engine
StatisticsRaise == route_call.stats_raises /\ search_engine # "none"

\* list_categories, lines 278-304
ListCategories ==
    /\ route_call.pc = "called"
    /\ LET answer ==
             IF ~route_call.pipeline
             THEN [status_code |-> 503, detail |-> "Pipeline not initialized"]
             ELSE ListCategoriesExcept(
                      ListCategoriesBody(GetPipelineStatus, StatisticsRaise))
       IN  route_call' = [route_call EXCEPT !.pc = "answered",
                             !.status_code = answer.status_code,
                             !.detail = answer.detail]
    /\ UNCHANGED <<pipeVars, extVars, initVars, tasks, batch, semaphore, multi,
                   search_call, embed_call, store, pages>>

RouteSpec == RouteInit /\ [][ListCategories]_vars

\* C30: GET /categories answers 503 when there is no pipeline and when the
\* pipeline reports categories_loaded false (with the detail "Categories
\* not loaded"); it answers 500 only when something unexpected was raised.
C30_NotLoadedIs503 ==
    route_call.pc = "answered" =>
        /\ ~route_call.pipeline => route_call.status_code = 503
        /\ (route_call.pipeline /\ ~categories_loaded /\ ~StatisticsRaise) =>
             /\ route_call.status_code = 503
             /\ route_call.detail = "Categories not loaded"
        /\ route_call.status_code = 500 => StatisticsRaise

=============================================================================
